---- MODULE Spec2Model ----
(***************************************************************************)
(* estalloc: TLSF allocator over one caller-supplied pool (estalloc.c).    *)
(*                                                                         *)
(* Build modelled: ESTALLOC_16BIT (ESTALLOC_MEMSIZE_T = uint16_t),         *)
(* ESTALLOC_ADDRESS_24BIT, ESTALLOC_DEBUG, on a target with 32-bit         *)
(* pointers, 32-bit unsigned int and 32-bit size_t.  ESTALLOC_ALIGNMENT is *)
(* 4 in Spec; the variable `alignment` holds it, so that the build with    *)
(* ESTALLOC_ALIGNMENT = 8 can be run through the same definitions.         *)
(*                                                                         *)
(* The block region is modelled byte by byte: `mem` maps every address of  *)
(* [BPOOL_TOP, BPOOL_END) to the byte stored there.  Addresses are offsets *)
(* from the pool base, so 0 (inside the pool header) stands for NULL.      *)
(* Block headers, free-list links and boundary tags live in `mem` exactly  *)
(* where the C code puts them (little-endian); the pool header fields are  *)
(* the variables pool_size, free_fli_bitmap, free_sli_bitmap, free_blocks  *)
(* and error_message.                                                      *)
(*                                                                         *)
(* Request sizes are unsigned int values below 2^31, where no 32-bit       *)
(* arithmetic wraps; the truncation to the 16-bit ESTALLOC_MEMSIZE_T is    *)
(* modelled (% MEMSIZE_MOD).                                               *)
(***************************************************************************)
EXTENDS Integers, Sequences, FiniteSets, TLC

(***************************** program constants **************************)
VARIABLE alignment   \* the build option ESTALLOC_ALIGNMENT: 4 or 8
ESTALLOC_ALIGNMENT == alignment
ALIGNMENT_MASK == ESTALLOC_ALIGNMENT - 1
MEMSIZE_MOD == 65536
ESTALLOC_FLI_BIT_WIDTH == 9
ESTALLOC_SLI_BIT_WIDTH == 3
ESTALLOC_IGNORE_LSBS == IF ESTALLOC_ALIGNMENT = 8 THEN 5 ELSE 4
SIZE_FREE_BLOCKS == 80
ESTALLOC_MIN_MEMORY_BLOCK_SIZE == 2 ^ ESTALLOC_IGNORE_LSBS
MSB_BIT1_FLI == 32768
MSB_BIT1_SLI == 128
sizeof_USED_BLOCK == 4
sizeof_PTR == 4
\* ESTALLOC: stat, prof, error_message, and char padding[4] when the alignment is 8
sizeof_ESTALLOC == IF ESTALLOC_ALIGNMENT = 8 THEN 24 ELSE 20
\* est, size, free_fli_bitmap, free_sli_bitmap[11], pad[3], padding, free_blocks[81]
sizeof_MEMORY_POOL == sizeof_ESTALLOC + 20 + (SIZE_FREE_BLOCKS + 1) * sizeof_PTR
OFS_next_free == 4
OFS_prev_free == 8
NULL == 0

(******************************** bounds **********************************)
\* size handed to est_init (rounded down to a multiple of the alignment)
InitSize == 443
\* number of allocations the caller keeps at the same time
MaxLive == 3
\* number of calls the caller makes
MaxCalls == 5

(***************************** integer helpers ****************************)
RECURSIVE Pow2(_)
Pow2(n) == IF n = 0 THEN 1 ELSE 2 * Pow2(n - 1)

\* x >> n for a non-negative x
Shr(x, n) == x \div Pow2(n)

\* (-x & ALIGNMENT_MASK) for an unsigned x
AlignPad(x) == (ESTALLOC_ALIGNMENT - (x % ESTALLOC_ALIGNMENT)) % ESTALLOC_ALIGNMENT

\* bit (msb >> i) of bitmap bm
BitSet(bm, msb, i) == IF i > 15 THEN FALSE ELSE ((bm \div (msb \div Pow2(i))) % 2) = 1
\* bm |= (msb >> i)
BitOr(bm, msb, i) == IF BitSet(bm, msb, i) THEN bm ELSE bm + (msb \div Pow2(i))
\* bm &= ~(msb >> i)
BitClear(bm, msb, i) == IF BitSet(bm, msb, i) THEN bm - (msb \div Pow2(i)) ELSE bm
\* bm & ((msb >> i) - 1)
BitBelow(bm, msb, i) == IF (msb \div Pow2(i)) = 0 THEN 0 ELSE bm % (msb \div Pow2(i))

FLI(x) == x \div Pow2(ESTALLOC_SLI_BIT_WIDTH)
SLI(x) == x % Pow2(ESTALLOC_SLI_BIT_WIDTH)

(****************************** pool geometry *****************************)
BPOOL_TOP(P) == sizeof_MEMORY_POOL
BPOOL_END(P) == P.size

\* does the pool's block region hold the bytes [a, a + n) ?
InPool(P, a, n) == BPOOL_TOP(P) <= a /\ a + n <= BPOOL_END(P)

(***************************** memory access ******************************)
\* a uint16_t field at address a (little-endian)
Rd16(P, a) == P.mem[a] + 256 * P.mem[a + 1]
Wr16(P, a, v) == [P EXCEPT !.mem = [@ EXCEPT ![a] = v % 256, ![a + 1] = (v \div 256) % 256]]
\* a pointer at address a (32-bit, little-endian, offset from the pool base)
RdPtr(P, a) == P.mem[a] + 256 * P.mem[a + 1] + 65536 * (P.mem[a + 2] + 256 * P.mem[a + 3])
WrPtr(P, a, v) ==
  [P EXCEPT !.mem = [@ EXCEPT ![a] = v % 256, ![a + 1] = (v \div 256) % 256,
                                ![a + 2] = 0, ![a + 3] = 0]]
\* for (i = 0; i < n; i++) p[i] = v;   the part of it that falls in the pool
Fill(P, p, n, v) ==
  [P EXCEPT !.mem = [x \in DOMAIN @ |-> IF p <= x /\ x < p + n THEN v ELSE @[x]],
            !.oob_write = @ \/ (n > 0 /\ ~InPool(P, p, n))]

(****************************** block macros ******************************)
SizeField(P, p) == Rd16(P, p)
BLOCK_SIZE(P, p) == SizeField(P, p) - (SizeField(P, p) % ESTALLOC_ALIGNMENT)
PHYS_NEXT(P, p) == p + BLOCK_SIZE(P, p)
IS_USED_BLOCK(P, p) == SizeField(P, p) % 2 = 1
IS_FREE_BLOCK(P, p) == ~IS_USED_BLOCK(P, p)
IS_PREV_USED(P, p) == (SizeField(P, p) \div 2) % 2 = 1
IS_PREV_FREE(P, p) == ~IS_PREV_USED(P, p)
SET_USED_BLOCK(P, p) == IF IS_USED_BLOCK(P, p) THEN P ELSE Wr16(P, p, SizeField(P, p) + 1)
SET_FREE_BLOCK(P, p) == IF IS_USED_BLOCK(P, p) THEN Wr16(P, p, SizeField(P, p) - 1) ELSE P
SET_PREV_USED(P, p) == IF IS_PREV_USED(P, p) THEN P ELSE Wr16(P, p, SizeField(P, p) + 2)
\* faulty variant of SET_PREV_FREE: the flag is left as it was (C13 fails with it)
SET_PREV_FREE_skip(P, p) == P

SET_PREV_FREE(P, p) == IF IS_PREV_USED(P, p) THEN Wr16(P, p, SizeField(P, p) - 2) ELSE P
BLOCK_ADRS(p) == p - sizeof_USED_BLOCK

next_free(P, p) == RdPtr(P, p + OFS_next_free)
prev_free(P, p) == RdPtr(P, p + OFS_prev_free)

(************************** leading-zero helpers **************************)
nlz16(x0) ==
  IF x0 = 0 THEN 16
  ELSE LET n1 == IF Shr(x0, 8) = 0 THEN 9 ELSE 1
           x1 == IF Shr(x0, 8) = 0 THEN (x0 * 256) % 65536 ELSE x0
           n2 == IF Shr(x1, 12) = 0 THEN n1 + 4 ELSE n1
           x2 == IF Shr(x1, 12) = 0 THEN (x1 * 16) % 65536 ELSE x1
           n3 == IF Shr(x2, 14) = 0 THEN n2 + 2 ELSE n2
           x3 == IF Shr(x2, 14) = 0 THEN (x2 * 4) % 65536 ELSE x2
       IN  n3 - Shr(x3, 15)

nlz8(x0) ==
  IF x0 = 0 THEN 8
  ELSE LET n1 == IF Shr(x0, 4) = 0 THEN 5 ELSE 1
           x1 == IF Shr(x0, 4) = 0 THEN (x0 * 16) % 256 ELSE x0
           n2 == IF Shr(x1, 6) = 0 THEN n1 + 2 ELSE n1
           x2 == IF Shr(x1, 6) = 0 THEN (x1 * 4) % 256 ELSE x1
       IN  n2 - Shr(x2, 7)

(***************************** size-class index ***************************)
\* faulty variant of calc_index: the shift of the second level is one bit too
\* long in the rows above the first (C30 fails with it)
calc_index_shift(alloc_size) ==
  IF Shr(alloc_size, ESTALLOC_FLI_BIT_WIDTH + ESTALLOC_SLI_BIT_WIDTH + ESTALLOC_IGNORE_LSBS) # 0
  THEN SIZE_FREE_BLOCKS - 1
  ELSE LET fli == 16 - nlz16(Shr(alloc_size, ESTALLOC_SLI_BIT_WIDTH + ESTALLOC_IGNORE_LSBS))
           shift == ESTALLOC_IGNORE_LSBS + fli
           sli == Shr(alloc_size, shift) % Pow2(ESTALLOC_SLI_BIT_WIDTH)
       IN  fli * Pow2(ESTALLOC_SLI_BIT_WIDTH) + sli

calc_index(alloc_size) ==
  IF Shr(alloc_size, ESTALLOC_FLI_BIT_WIDTH + ESTALLOC_SLI_BIT_WIDTH + ESTALLOC_IGNORE_LSBS) # 0
  THEN SIZE_FREE_BLOCKS - 1
  ELSE LET fli == 16 - nlz16(Shr(alloc_size, ESTALLOC_SLI_BIT_WIDTH + ESTALLOC_IGNORE_LSBS))
           shift == IF fli = 0 THEN ESTALLOC_IGNORE_LSBS ELSE ESTALLOC_IGNORE_LSBS - 1 + fli
           sli == Shr(alloc_size, shift) % Pow2(ESTALLOC_SLI_BIT_WIDTH)
       IN  fli * Pow2(ESTALLOC_SLI_BIT_WIDTH) + sli

(*************************** free-list maintenance ************************)
\* the list part of add_free_block: bitmaps, links, head of free_blocks[index]
add_free_link(P, target, index) ==
  [(IF P.free_blocks[index] # NULL
    THEN WrPtr(WrPtr(WrPtr(P, target + OFS_prev_free, NULL),
                     target + OFS_next_free, P.free_blocks[index]),
               P.free_blocks[index] + OFS_prev_free, target)
    ELSE WrPtr(WrPtr(P, target + OFS_prev_free, NULL), target + OFS_next_free, NULL))
   EXCEPT !.free_fli_bitmap = BitOr(@, MSB_BIT1_FLI, FLI(index)),
          !.free_sli_bitmap[FLI(index)] = BitOr(@, MSB_BIT1_SLI, SLI(index)),
          !.free_blocks[index] = target]

\* faulty variant of add_free_mark: the last word of the block is not written
\* (C25 fails with it)
add_free_mark_untagged(P, target) == SET_FREE_BLOCK(P, target)

\* SET_FREE_BLOCK(target); SET_TOP_ADRS(target);
add_free_mark(P, target) ==
  WrPtr(SET_FREE_BLOCK(P, target), target + BLOCK_SIZE(P, target) - sizeof_PTR, target)

\* faulty variant of add_free_block: the block is put on the list of the class
\* above its own (C31 fails with it)
add_free_block_above(P, target) ==
  add_free_link(add_free_mark(P, target), target, calc_index(BLOCK_SIZE(P, target)) + 1)

add_free_block(P, target) ==
  add_free_link(add_free_mark(P, target), target, calc_index(BLOCK_SIZE(P, target)))

\* faulty variant of clear_bitmaps: the bit of the row stays set when the last
\* list of the row has become empty (C23 fails with it)
clear_bitmaps_keep_row(P, fli, sli) ==
  [P EXCEPT !.free_sli_bitmap[fli] = BitClear(@, MSB_BIT1_SLI, sli)]

\* the bitmaps once free_blocks[index] has become empty
clear_bitmaps(P, fli, sli) ==
  IF BitClear(P.free_sli_bitmap[fli], MSB_BIT1_SLI, sli) = 0
  THEN [P EXCEPT !.free_sli_bitmap[fli] = 0,
                 !.free_fli_bitmap = BitClear(@, MSB_BIT1_FLI, fli)]
  ELSE [P EXCEPT !.free_sli_bitmap[fli] = BitClear(@, MSB_BIT1_SLI, sli)]

\* remove_free_block when target->prev_free == NULL
unlink_head(P, target, index) ==
  IF next_free(P, target) = NULL
  THEN clear_bitmaps([P EXCEPT !.free_blocks[index] = NULL], FLI(index), SLI(index))
  ELSE WrPtr([P EXCEPT !.free_blocks[index] = next_free(P, target)],
             next_free(P, target) + OFS_prev_free, NULL)

\* faulty variant of unlink_inner: a block that is not the head stays on its
\* list (C22 fails with it)
unlink_inner_skip(P, target) == P

\* remove_free_block when target has a predecessor in its list
unlink_inner(P, target) ==
  IF next_free(P, target) = NULL
  THEN WrPtr(P, prev_free(P, target) + OFS_next_free, NULL)
  ELSE WrPtr(WrPtr(P, prev_free(P, target) + OFS_next_free, next_free(P, target)),
             next_free(P, target) + OFS_prev_free, prev_free(P, target))

remove_free_block(P, target) ==
  IF prev_free(P, target) = NULL
  THEN unlink_head(P, target, calc_index(BLOCK_SIZE(P, target)))
  ELSE unlink_inner(P, target)

(****************************** split and merge ***************************)
\* target->size = size | (target->size & flags)
SetSizeKeepFlags(P, p, size) == Wr16(P, p, size + (SizeField(P, p) % ESTALLOC_ALIGNMENT))

\* faulty variant of split_result: the block is split whenever something is
\* left of it (C26 fails with it)
split_result_any(P, target, size) ==
  IF BLOCK_SIZE(P, target) - size <= 0 THEN NULL ELSE target + size

\* faulty variant of split_result: the block is never split (C32 fails with it)
split_result_never(P, target, size) == NULL

\* the block split_block returns (NULL: no split)
split_result(P, target, size) ==
  IF BLOCK_SIZE(P, target) - size <= ESTALLOC_MIN_MEMORY_BLOCK_SIZE THEN NULL ELSE target + size

\* faulty variant of split_block: the block split off is given a size one used
\* header short (C21 fails with it)
split_block_short(P, target, size) ==
  IF split_result(P, target, size) = NULL THEN P
  ELSE SetSizeKeepFlags(Wr16(P, target + size,
                             BLOCK_SIZE(P, target) - size - sizeof_USED_BLOCK),
                        target, size)

\* the pool after split_block
split_block(P, target, size) ==
  IF split_result(P, target, size) = NULL THEN P
  ELSE SetSizeKeepFlags(Wr16(P, target + size, BLOCK_SIZE(P, target) - size), target, size)

\* faulty variant of merge_block: target keeps its size (C28 fails with it)
merge_block_none(P, target, next) == P

merge_block(P, target, next) ==
  Wr16(P, target, (SizeField(P, target) + BLOCK_SIZE(P, next)) % MEMSIZE_MOD)

(********************************* profiling ******************************)
\* the walk of take_profile: the bytes of the blocks that are not free
RECURSIVE profile_walk(_, _, _)
profile_walk(P, block, used) ==
  IF ~(block < BPOOL_END(P)) THEN used
  ELSE profile_walk(P, PHYS_NEXT(P, block),
                    IF IS_FREE_BLOCK(P, block) THEN used ELSE used + BLOCK_SIZE(P, block))

\* the local variable prof of take_profile when the function returns
take_profile_local(prof0, used) ==
  [prof0 EXCEPT !.max = IF @ < used THEN used ELSE @,
                !.min = IF used < @ THEN used ELSE @]

\* take_profile: `ESTALLOC_PROF prof = est->prof;` is a copy of the structure;
\* the function updates the copy, take_profile_local, and returns: est->prof
\* is never written
take_profile(P) == P

\* PROFILE(): if (est->prof.profiling) take_profile(est);
PROFILE(P) == IF P.prof.profiling # 0 THEN take_profile(P) ELSE P

\* est_start_profiling: it too works on a copy, `ESTALLOC_PROF prof = est->prof;`
\* prof.profiling = 1, prof.max = 0 and prof.initial = prof.min = prof.max are
\* assignments to the copy; PROFILE() tests est->prof.profiling
est_start_profiling(P) == IF P.prof.profiling # 0 THEN P ELSE PROFILE(P)

\* est_stop_profiling: est->prof.profiling = 0;
est_stop_profiling(P) == [P EXCEPT !.prof.profiling = 0]

(********************************* est_init *******************************)
\* the bytes est_init and its add_free_block touch: both size fields, the links
\* and the boundary tag of the free block
init_in_pool(P, free_block, free_size) ==
  /\ InPool(P, free_block, OFS_prev_free + sizeof_PTR)
  /\ InPool(P, free_block + free_size - sizeof_PTR, sizeof_PTR)
  /\ InPool(P, free_block + free_size, sizeof_USED_BLOCK)

\* fresh is the content of the caller's buffer, which est_init does not clear;
\* when est_init writes outside [BPOOL_TOP, BPOOL_END) the pool is left as
\* oob_write, and nothing more is known of it
est_init(size0, fresh) ==
  LET size == size0 - (size0 % ESTALLOC_ALIGNMENT)
      P0 == [size |-> size,
             mem |-> [a \in sizeof_MEMORY_POOL .. (size - 1) |-> fresh],
             free_fli_bitmap |-> 0,
             free_sli_bitmap |-> [i \in 0 .. (ESTALLOC_FLI_BIT_WIDTH + 1) |-> 0],
             free_blocks |-> [i \in 0 .. SIZE_FREE_BLOCKS |-> NULL],
             error_message |-> "",
             prof |-> [profiling |-> 0, initial |-> 0, max |-> 0, min |-> 0],
             oob_read |-> FALSE,
             oob_write |-> FALSE]
      s0 == sizeof_USED_BLOCK
      sentinel_size == (s0 + AlignPad(s0)) % MEMSIZE_MOD
      free_size == (size - sizeof_MEMORY_POOL - sentinel_size) % MEMSIZE_MOD
      free_block == BPOOL_TOP(P0)
      used_block == free_block + free_size
      P1 == Wr16(P0, free_block, free_size + 2)
      P2 == Wr16(P1, used_block, sentinel_size + 1)
  IN  IF init_in_pool(P0, free_block, free_size)
      THEN add_free_block(P2, free_block)
      ELSE [P0 EXCEPT !.oob_write = TRUE]

(******************************** est_malloc ******************************)
\* ESTALLOC_MEMSIZE_T alloc_size = size + sizeof(USED_BLOCK), aligned up,
\* raised to the minimum block size
malloc_alloc_size(size) ==
  LET a0 == (size + sizeof_USED_BLOCK) % MEMSIZE_MOD
      a1 == (a0 + AlignPad(a0)) % MEMSIZE_MOD
  IN  IF a1 < ESTALLOC_MIN_MEMORY_BLOCK_SIZE THEN ESTALLOC_MIN_MEMORY_BLOCK_SIZE ELSE a1

\* SPLIT_BLOCK: after split_block, which left P and maybe the block split
malloc_split_rest(P, target, split, alloc_size) ==
  [pool |-> PROFILE(Fill(SET_USED_BLOCK(IF split # NULL
                                THEN add_free_block(SET_PREV_USED(P, split), split)
                                ELSE SET_PREV_USED(P, PHYS_NEXT(P, target)),
                                target),
                 target + sizeof_USED_BLOCK, alloc_size - sizeof_USED_BLOCK, 170)),
   ret |-> target + sizeof_USED_BLOCK]

\* SPLIT_BLOCK: and the rest of est_malloc
malloc_split(P, target, alloc_size) ==
  malloc_split_rest(split_block(P, target, alloc_size), target,
                    split_result(P, target, alloc_size), alloc_size)

\* faulty variant of malloc_unlink: the block stays on its list (C1 fails with it)
malloc_unlink_keep(P, target, index, fli, sli) == P

\* FOUND_TARGET_BLOCK: remove free_blocks index
malloc_unlink(P, target, index, fli, sli) ==
  IF next_free(P, target) = NULL
  THEN clear_bitmaps([P EXCEPT !.free_blocks[index] = NULL], fli, sli)
  ELSE WrPtr([P EXCEPT !.free_blocks[index] = next_free(P, target)],
             next_free(P, target) + OFS_prev_free, NULL)

\* FOUND_TARGET_BLOCK: and on to SPLIT_BLOCK
malloc_found(P, target, index, fli, sli, alloc_size) ==
  malloc_split(malloc_unlink(P, target, index, fli, sli), target, alloc_size)

\* FOUND_FLI_SLI:
malloc_fli_sli(P, fli, sli, alloc_size) ==
  LET index == fli * Pow2(ESTALLOC_SLI_BIT_WIDTH) + sli
      target == IF index <= SIZE_FREE_BLOCKS THEN P.free_blocks[index] ELSE NULL
  IN  IF target = NULL THEN [pool |-> P, ret |-> NULL]
      ELSE malloc_found(P, target, index, fli, sli, alloc_size)

\* faulty variant of first_fit: only the head of the list is tried (C29 fails
\* with it)
first_fit_head(P, target, alloc_size) ==
  IF target # NULL /\ BLOCK_SIZE(P, target) >= alloc_size THEN target ELSE NULL

\* the first-fit scan of one class list
RECURSIVE first_fit(_, _, _)
first_fit(P, target, alloc_size) ==
  IF target = NULL THEN NULL
  ELSE IF BLOCK_SIZE(P, target) >= alloc_size THEN target
  ELSE first_fit(P, next_free(P, target), alloc_size)

\* the search of est_malloc, from index = calc_index(alloc_size)
malloc_search(P, alloc_size, index) ==
  IF P.free_blocks[index] # NULL /\ BLOCK_SIZE(P, P.free_blocks[index]) >= alloc_size
  THEN malloc_found(P, P.free_blocks[index], index, FLI(index), SLI(index), alloc_size)
  ELSE IF P.free_blocks[index + 1] # NULL
  THEN malloc_found(P, P.free_blocks[index + 1], index + 1, FLI(index + 1), SLI(index + 1),
                    alloc_size)
  ELSE IF BitBelow(P.free_sli_bitmap[FLI(index + 1)], MSB_BIT1_SLI, SLI(index + 1)) # 0
  THEN malloc_fli_sli(P, FLI(index + 1),
                      nlz8(BitBelow(P.free_sli_bitmap[FLI(index + 1)], MSB_BIT1_SLI,
                                    SLI(index + 1))),
                      alloc_size)
  ELSE IF BitBelow(P.free_fli_bitmap, MSB_BIT1_FLI, FLI(index + 1)) # 0
  THEN malloc_fli_sli(P, nlz16(BitBelow(P.free_fli_bitmap, MSB_BIT1_FLI, FLI(index + 1))),
                      nlz8(P.free_sli_bitmap[nlz16(BitBelow(P.free_fli_bitmap, MSB_BIT1_FLI,
                                                            FLI(index + 1)))]),
                      alloc_size)
  ELSE IF first_fit(P, P.free_blocks[index], alloc_size) # NULL
  THEN malloc_split(remove_free_block(P, first_fit(P, P.free_blocks[index], alloc_size)),
                    first_fit(P, P.free_blocks[index], alloc_size), alloc_size)
  ELSE [pool |-> P, ret |-> NULL]

est_malloc(P, size) == malloc_search(P, malloc_alloc_size(size), calc_index(malloc_alloc_size(size)))

(****************************** est_usable_size ***************************)
est_usable_size(P, ptr) == BLOCK_SIZE(P, BLOCK_ADRS(ptr)) - sizeof_USED_BLOCK

(******************************* est_permalloc ****************************)
\* ESTALLOC_MEMSIZE_T alloc_size = size + (-size & ALIGNMENT_MASK)
permalloc_alloc_size(size) == (size + AlignPad(size)) % MEMSIZE_MOD

\* do { prev = tail; tail = PHYS_NEXT(tail); } while (PHYS_NEXT(tail) < BPOOL_END(pool));
\* When tail is not below BPOOL_END its size field lies outside the pool: whatever
\* is read there, PHYS_NEXT(tail) is not below BPOOL_END and the loop ends.
RECURSIVE find_tail(_, _)
find_tail(P, tail) ==
  IF InPool(P, PHYS_NEXT(P, tail), 2) /\ PHYS_NEXT(P, PHYS_NEXT(P, tail)) < BPOOL_END(P)
  THEN find_tail(P, PHYS_NEXT(P, tail))
  ELSE [prev |-> tail, tail |-> PHYS_NEXT(P, tail)]

\* faulty variant of permalloc_too_small: a block that holds the request exactly
\* is refused (C11 fails with it)
permalloc_too_small_exact(P, prev, alloc_size) ==
  BLOCK_SIZE(P, prev) >= sizeof_USED_BLOCK
    /\ BLOCK_SIZE(P, prev) - sizeof_USED_BLOCK <= alloc_size

\* (BLOCK_SIZE(prev) - sizeof(USED_BLOCK)) < alloc_size, an unsigned comparison
permalloc_too_small(P, prev, alloc_size) ==
  BLOCK_SIZE(P, prev) >= sizeof_USED_BLOCK
    /\ BLOCK_SIZE(P, prev) - sizeof_USED_BLOCK < alloc_size

\* no split, use all: prev->size += BLOCK_SIZE(tail); SET_USED_BLOCK(prev);
permalloc_use_all(P, prev, tail_field) ==
  SET_USED_BLOCK(Wr16(P, prev, (SizeField(P, prev)
                   + (tail_field - (tail_field % ESTALLOC_ALIGNMENT))) % MEMSIZE_MOD), prev)

\* faulty variant of permalloc_shrink_prev: prev keeps its size, so the free
\* block still spans the region handed out (C9 fails with it)
permalloc_shrink_prev_none(P, prev, alloc_size) == P

\* prev->size -= alloc_size;
permalloc_shrink_prev(P, prev, alloc_size) ==
  Wr16(P, prev, (SizeField(P, prev) - alloc_size) % MEMSIZE_MOD)

\* split block: the new tail header, the shrunk prev back on its list, the fill
permalloc_split(P, prev, tail, tail_field, alloc_size) ==
  Fill(add_free_block(permalloc_shrink_prev(Wr16(P, tail - alloc_size,
                                                 (tail_field + alloc_size) % MEMSIZE_MOD),
                                            prev, alloc_size),
                      prev),
       tail - alloc_size + sizeof_USED_BLOCK, alloc_size, 170)

\* after remove_free_block(pool, prev), which left P
permalloc_carve(P, prev, tail, tail_field, alloc_size) ==
  IF (BLOCK_SIZE(P, prev) - alloc_size) % MEMSIZE_MOD <= ESTALLOC_MIN_MEMORY_BLOCK_SIZE
  THEN [pool |-> permalloc_use_all(P, prev, tail_field),
        ret |-> prev + sizeof_USED_BLOCK, tail |-> TRUE, len |-> alloc_size]
  ELSE [pool |-> permalloc_split(P, prev, tail, tail_field, alloc_size),
        ret |-> tail - alloc_size + sizeof_USED_BLOCK, tail |-> TRUE, len |-> alloc_size]

\* FALLBACK: return est_malloc(est, size);
permalloc_fallback(r) == [pool |-> r.pool, ret |-> r.ret, tail |-> FALSE, len |-> 0]

\* faulty variant of permalloc_tail: prev is unlinked before the size check, so
\* the fallback starts from a pool that has lost it (C3 fails with it)
permalloc_tail_unlink_first(P, size, w, outside) ==
  IF IS_USED_BLOCK(P, w.prev) THEN permalloc_fallback(est_malloc(P, size))
  ELSE IF permalloc_too_small(P, w.prev, permalloc_alloc_size(size))
  THEN permalloc_fallback(est_malloc(remove_free_block(P, w.prev), size))
  ELSE permalloc_carve(remove_free_block(P, w.prev), w.prev, w.tail,
                       IF InPool(P, w.tail, 2) THEN SizeField(P, w.tail) ELSE outside,
                       permalloc_alloc_size(size))

\* the rest of est_permalloc once the walk has found w = [prev, tail]; P records
\* whether the walk read tail->size outside the pool, and outside is what a
\* uint16_t read there yields
permalloc_tail(P, size, w, outside) ==
  IF IS_USED_BLOCK(P, w.prev) \/ permalloc_too_small(P, w.prev, permalloc_alloc_size(size))
  THEN permalloc_fallback(est_malloc(P, size))
  ELSE permalloc_carve(remove_free_block(P, w.prev), w.prev, w.tail,
                       IF InPool(P, w.tail, 2) THEN SizeField(P, w.tail) ELSE outside,
                       permalloc_alloc_size(size))

permalloc_walk(P, w) == [P EXCEPT !.oob_read = @ \/ ~InPool(P, w.tail, 2)]

est_permalloc(P, size, outside) ==
  permalloc_tail(permalloc_walk(P, find_tail(P, BPOOL_TOP(P))), size,
                 find_tail(P, BPOOL_TOP(P)), outside)

(********************************* est_calloc *****************************)
\* faulty variant of calloc_clear: the last byte is left as it was (C6 fails with it)
calloc_clear_short(r, total_size) ==
  IF r.ret # NULL
  THEN [pool |-> Fill(r.pool, r.ret, total_size - 1, 0), ret |-> r.ret]
  ELSE r

\* after est_malloc, which returned r
calloc_clear(r, total_size) ==
  IF r.ret # NULL
  THEN [pool |-> Fill(r.pool, r.ret, total_size, 0), ret |-> r.ret]
  ELSE r

\* unsigned int total_size = nmemb * size;   (every product the callers here
\* form is below 2^31, so the 32 bit unsigned int holds it exactly)
est_calloc(P, nmemb, size) == calloc_clear(est_malloc(P, nmemb * size), nmemb * size)

(********************************** est_free ******************************)
RECURSIVE free_walk(_, _, _)
free_walk(P, block, target) ==
  IF block = target THEN block
  ELSE IF PHYS_NEXT(P, block) >= BPOOL_END(P) THEN block
  ELSE free_walk(P, PHYS_NEXT(P, block), target)

\* the verdict of the ESTALLOC_DEBUG check on the block the walk stopped at
free_verdict(P, target, block) ==
  IF target < BPOOL_TOP(P) \/ target > BPOOL_END(P)
  THEN "est_free(): Outside memory pool address was specified.\n"
  ELSE IF block = target
  THEN (IF IS_FREE_BLOCK(P, block) THEN "est_free(): double free detected.\n"
        ELSE IF PHYS_NEXT(P, block) >= BPOOL_END(P)
        THEN "est_free(): permalloc address was specified.\n"
        ELSE "")
  ELSE IF block < target THEN "est_free(): permalloc address was specified.\n"
  ELSE "est_free(): Illegal address.\n"

\* the ESTALLOC_DEBUG check of est_free: "" when the pointer passes
free_check(P, ptr) ==
  free_verdict(P, BLOCK_ADRS(ptr), free_walk(P, BPOOL_TOP(P), BLOCK_ADRS(ptr)))

\* faulty variant of free_merge_next: the freed block is never merged with a
\* free next block (C8 fails with it)
free_merge_next_none(P, target) == SET_PREV_FREE(P, PHYS_NEXT(P, target))

\* check next block, merge?
free_merge_next(P, target) ==
  IF IS_FREE_BLOCK(P, PHYS_NEXT(P, target))
  THEN merge_block(remove_free_block(P, PHYS_NEXT(P, target)), target, PHYS_NEXT(P, target))
  ELSE SET_PREV_FREE(P, PHYS_NEXT(P, target))

\* faulty variant of free_merge_prev: the freed block is never merged with a
\* free previous block (C24 fails with it)
free_merge_prev_none(P, target, prev) == add_free_block(P, target)

\* check previous block, merge?  and add_free_block(pool, target)
free_merge_prev(P, target, prev) ==
  IF IS_PREV_FREE(P, target)
  THEN add_free_block(merge_block(remove_free_block(P, prev), prev, target), prev)
  ELSE add_free_block(P, target)

\* prev = *((FREE_BLOCK **)((uint8_t*)target - sizeof(FREE_BLOCK *)))
free_prev(P, target) == RdPtr(P, target - sizeof_PTR)

free_release(P, target) == free_merge_prev(P, target, free_prev(P, target))

\* the release part of est_free
free_core(P, ptr) ==
  PROFILE(free_release(free_merge_next(P, BLOCK_ADRS(ptr)), BLOCK_ADRS(ptr)))

\* the ESTALLOC_DEBUG part after the check: fill the payload, clear error_message
free_debug(P, ptr, msg) ==
  IF msg # ""
  THEN [P EXCEPT !.error_message = msg]
  ELSE free_core([Fill(P, ptr, BLOCK_SIZE(P, BLOCK_ADRS(ptr)) - sizeof_USED_BLOCK, 255)
                    EXCEPT !.error_message = ""], ptr)

\* faulty variant of est_free: no test for a NULL pointer (C16 fails with it)
est_free_any(P, ptr) == free_debug(P, ptr, free_check(P, ptr))

est_free(P, ptr) == IF ptr = NULL THEN P ELSE free_debug(P, ptr, free_check(P, ptr))

(********************************* est_realloc ****************************)
\* for (i = 0; i < n; i++) dst[i] = src[i];   ascending, one byte at a time
Copy(P, dst, src, n) ==
  [P EXCEPT !.mem = [x \in DOMAIN @ |->
                       IF dst <= x /\ x < dst + n
                       THEN @[IF 0 < dst - src /\ dst - src < n
                              THEN src + ((x - dst) % (dst - src))
                              ELSE src + (x - dst)]
                       ELSE @[x]]]

\* alloc_size > BLOCK_SIZE(target)
realloc_expand(P, target, alloc_size) == alloc_size > BLOCK_SIZE(P, target)

\* faulty variant of realloc_move: a block that must grow always moves (C7 fails
\* with it)
realloc_move_always(P, target, alloc_size) == realloc_expand(P, target, alloc_size)

\* the two goto ALLOC_AND_COPY of expand part 1
realloc_move(P, target, alloc_size) ==
  realloc_expand(P, target, alloc_size)
    /\ (IS_USED_BLOCK(P, PHYS_NEXT(P, target))
        \/ BLOCK_SIZE(P, target) + BLOCK_SIZE(P, PHYS_NEXT(P, target)) < alloc_size)

\* expand part 1: take the next block in
realloc_grow(P, target, alloc_size) ==
  IF realloc_expand(P, target, alloc_size)
  THEN merge_block(remove_free_block(P, PHYS_NEXT(P, target)), target, PHYS_NEXT(P, target))
  ELSE P

\* check next block, merge?  and add_free_block(pool, release)
realloc_release(P, release, next) ==
  add_free_block(IF IS_FREE_BLOCK(P, next)
                 THEN merge_block(remove_free_block(P, next), release, next)
                 ELSE SET_PREV_FREE(P, next),
                 release)

\* try shrink, after split_block, which left P and returned release
realloc_after_split(P, release, next) ==
  IF release = NULL THEN PROFILE(SET_PREV_USED(P, next))
  ELSE PROFILE(realloc_release(SET_PREV_USED(P, release), release, next))

\* next = PHYS_NEXT(target); try shrink.
realloc_shrink(P, target, alloc_size) ==
  realloc_after_split(split_block(P, target, alloc_size),
                      split_result(P, target, alloc_size), PHYS_NEXT(P, target))

\* faulty variant of realloc_copy: the old block is given up although est_malloc
\* has failed (C4 fails with it)
realloc_copy_free_first(P, m, ptr) ==
  IF m.ret = NULL THEN [pool |-> est_free(P, ptr), ret |-> NULL]
  ELSE [pool |-> est_free(Copy(m.pool, m.ret, ptr,
                               BLOCK_SIZE(m.pool, BLOCK_ADRS(ptr)) - sizeof_USED_BLOCK), ptr),
        ret |-> m.ret]

\* faulty variant of realloc_copy: the old block is freed before it is copied
\* (C5 fails with it)
realloc_copy_after_free(P, m, ptr) ==
  IF m.ret = NULL THEN [pool |-> P, ret |-> NULL]
  ELSE [pool |-> Copy(est_free(m.pool, ptr), m.ret, ptr,
                      BLOCK_SIZE(m.pool, BLOCK_ADRS(ptr)) - sizeof_USED_BLOCK),
        ret |-> m.ret]

\* ALLOC_AND_COPY, after est_malloc, which returned m; P is the pool before it
realloc_copy(P, m, ptr) ==
  IF m.ret = NULL THEN [pool |-> P, ret |-> NULL]
  ELSE [pool |-> est_free(Copy(m.pool, m.ret, ptr,
                               BLOCK_SIZE(m.pool, BLOCK_ADRS(ptr)) - sizeof_USED_BLOCK), ptr),
        ret |-> m.ret]

est_realloc(P, ptr, size) ==
  IF ptr = NULL THEN est_malloc(P, size)
  ELSE IF realloc_move(P, BLOCK_ADRS(ptr), malloc_alloc_size(size))
  THEN realloc_copy(P, est_malloc(P, size), ptr)
  ELSE [pool |-> realloc_shrink(realloc_grow(P, BLOCK_ADRS(ptr), malloc_alloc_size(size)),
                                BLOCK_ADRS(ptr), malloc_alloc_size(size)),
        ret |-> ptr]

(*************************** est_take_statistics **************************)
RECURSIVE stat_walk(_, _, _, _)
stat_walk(P, block, flag_used_free, st) ==
  IF ~(block < BPOOL_END(P)) THEN st
  ELSE LET st1 == IF IS_FREE_BLOCK(P, block)
                  THEN [st EXCEPT !.free = (@ + BLOCK_SIZE(P, block)) % MEMSIZE_MOD]
                  ELSE [st EXCEPT !.used = (@ + BLOCK_SIZE(P, block)) % MEMSIZE_MOD]
           st2 == IF flag_used_free # IS_USED_BLOCK(P, block)
                  THEN [st1 EXCEPT !.frag = (@ + 1) % MEMSIZE_MOD]
                  ELSE st1
       IN  stat_walk(P, PHYS_NEXT(P, block), IS_USED_BLOCK(P, block), st2)

\* faulty variant of est_take_statistics: frag starts at 0, not at -1 (C18 fails
\* with it)
est_take_statistics_frag(P) ==
  stat_walk(P, BPOOL_TOP(P), IS_USED_BLOCK(P, BPOOL_TOP(P)),
            [total |-> P.size, used |-> 0, free |-> 0, frag |-> 0])

est_take_statistics(P) ==
  stat_walk(P, BPOOL_TOP(P), IS_USED_BLOCK(P, BPOOL_TOP(P)),
            [total |-> P.size, used |-> 0, free |-> 0, frag |-> MEMSIZE_MOD - 1])

(**************************** layout of the pool **************************)
\* what the claims compare: chain, free lists, bitmaps, statistics
\* the blocks met by walking from BPOOL_TOP by BLOCK_SIZE, as
\* <<address, BLOCK_SIZE, USED, PREV_USED>>
RECURSIVE ChainFrom(_, _)
ChainFrom(P, b) ==
  IF ~InPool(P, b, 2) THEN << >>
  ELSE IF BLOCK_SIZE(P, b) = 0 THEN << <<b, 0, IS_USED_BLOCK(P, b), IS_PREV_USED(P, b)>> >>
  ELSE << <<b, BLOCK_SIZE(P, b), IS_USED_BLOCK(P, b), IS_PREV_USED(P, b)>> >>
       \o ChainFrom(P, PHYS_NEXT(P, b))

Chain(P) == ChainFrom(P, BPOOL_TOP(P))

\* the members of one free list, from its head along next_free
RECURSIVE ListFrom(_, _, _)
ListFrom(P, b, fuel) ==
  IF b = NULL \/ fuel = 0 \/ ~InPool(P, b, ESTALLOC_MIN_MEMORY_BLOCK_SIZE) THEN << >>
  ELSE <<b>> \o ListFrom(P, next_free(P, b), fuel - 1)

MaxBlocks(P) == (BPOOL_END(P) - BPOOL_TOP(P)) \div ESTALLOC_MIN_MEMORY_BLOCK_SIZE

FreeList(P, index) == ListFrom(P, P.free_blocks[index], MaxBlocks(P) + 1)

Layout(P) ==
  [chain |-> Chain(P),
   lists |-> [i \in 0 .. SIZE_FREE_BLOCKS |-> FreeList(P, i)],
   free_fli_bitmap |-> P.free_fli_bitmap,
   free_sli_bitmap |-> P.free_sli_bitmap,
   stat |-> est_take_statistics(P)]

NoLayout ==
  [chain |-> << >>, lists |-> << >>, free_fli_bitmap |-> 0, free_sli_bitmap |-> << >>,
   stat |-> << >>]

(************************* the pool and its caller *************************)
VARIABLES
  pool_size,        \* MEMORY_POOL.size
  mem,              \* the bytes of [BPOOL_TOP, BPOOL_END)
  free_fli_bitmap,  \* MEMORY_POOL.free_fli_bitmap
  free_sli_bitmap,  \* MEMORY_POOL.free_sli_bitmap[]
  free_blocks,      \* MEMORY_POOL.free_blocks[]
  error_message,    \* ESTALLOC.error_message ("" is NULL)
  prof,             \* ESTALLOC.prof
  oob_read,         \* some read fell outside [BPOOL_TOP, BPOOL_END)
  oob_write,        \* some write fell outside [BPOOL_TOP, BPOOL_END)
  live,             \* caller: allocations it may free or realloc, [ptr, size]
  perm,             \* caller: results of permalloc, [ptr, size, tail]
  last,             \* caller: the last call and what it returned
  calls             \* caller: number of calls made so far

vars == <<alignment, pool_size, mem, free_fli_bitmap, free_sli_bitmap, free_blocks,
          error_message, prof, oob_read, oob_write, live, perm, last, calls>>

Pool ==
  [size |-> pool_size, mem |-> mem, free_fli_bitmap |-> free_fli_bitmap,
   free_sli_bitmap |-> free_sli_bitmap, free_blocks |-> free_blocks,
   error_message |-> error_message, prof |-> prof, oob_read |-> oob_read,
   oob_write |-> oob_write]

\* the pool written back; the build it was compiled for stays
Commit(P) ==
  /\ alignment' = alignment
  /\ pool_size' = P.size
  /\ mem' = P.mem
  /\ free_fli_bitmap' = P.free_fli_bitmap
  /\ free_sli_bitmap' = P.free_sli_bitmap
  /\ free_blocks' = P.free_blocks
  /\ error_message' = P.error_message
  /\ prof' = P.prof
  /\ oob_read' = P.oob_read
  /\ oob_write' = P.oob_write

\* bytes the caller's buffer may hold before est_init
FreshBytes == {0, 90}
\* what a uint16_t read behind the pool may yield
OutsideWords == {0, 65535}
\* request sizes whose block size (payload + header + padding) fits ESTALLOC_MEMSIZE_T
ReqSizes == {10, 22, 65528}
\* request sizes beyond that
WideSizes == {65530, 65535, 65558}
\* calloc arguments
CallocArgs == {<<2, 11>>, <<8, 8191>>}
\* the byte the caller stores at offset i of a payload
Pattern(i) == 1 + (i % 7)

\* fill_memory(ptr, size, ...) of the caller
fill_memory(P, ptr, n) ==
  [P EXCEPT !.mem = [x \in DOMAIN @ |-> IF ptr <= x /\ x < ptr + n THEN Pattern(x - ptr) ELSE @[x]],
            !.oob_write = @ \/ (n > 0 /\ ~InPool(P, ptr, n))]

\* u: est_usable_size(ptr) before the call; pre: the layout before the call
Call(op, n, ptr, ret, u, pre) ==
  [op |-> op, n |-> n, ptr |-> ptr, ret |-> ret, u |-> u, pre |-> pre]

\* est_init(buf, size0) on the caller's buffer and est_start_profiling, in the
\* build with ESTALLOC_ALIGNMENT = a
InitPool(a, size0) ==
  /\ alignment = a
  /\ \E fresh \in FreshBytes :
    \E P \in {est_start_profiling(est_init(size0, fresh))} :
      /\ pool_size = P.size
      /\ mem = P.mem
      /\ free_fli_bitmap = P.free_fli_bitmap
      /\ free_sli_bitmap = P.free_sli_bitmap
      /\ free_blocks = P.free_blocks
      /\ error_message = P.error_message
      /\ prof = P.prof
      /\ oob_read = P.oob_read
      /\ oob_write = P.oob_write
      /\ live = {}
      /\ perm = {}
      /\ last = Call("init", size0, NULL, NULL, 0, NoLayout)
      /\ calls = 0

InitBuild(a) == InitPool(a, InitSize)

Init == InitBuild(4)

\* alloc_count < MAX_ALLOCS
Room == Cardinality(live) + Cardinality(perm) < MaxLive

\* one more call; after a write outside the pool nothing is known of the program
Count == calls < MaxCalls /\ ~oob_write /\ calls' = calls + 1

Malloc(n) ==
  /\ Room
  /\ Count
  /\ \E r \in {est_malloc(Pool, n)} :
       /\ Commit(IF r.ret # NULL THEN fill_memory(r.pool, r.ret, n) ELSE r.pool)
       /\ live' = IF r.ret # NULL THEN live \cup {[ptr |-> r.ret, size |-> n]} ELSE live
       /\ last' = Call("malloc", n, NULL, r.ret, 0,
                       IF r.ret # NULL THEN Layout(Pool) ELSE NoLayout)
  /\ UNCHANGED perm

Calloc(k, m) ==
  /\ Room
  /\ Count
  /\ \E r \in {est_calloc(Pool, k, m)} :
       /\ Commit(r.pool)
       /\ live' = IF r.ret # NULL THEN live \cup {[ptr |-> r.ret, size |-> k * m]} ELSE live
       /\ last' = Call("calloc", k * m, NULL, r.ret, 0, NoLayout)
  /\ UNCHANGED perm

Permalloc(n) ==
  /\ Room
  /\ Count
  /\ \E outside \in OutsideWords :
       \E r \in {est_permalloc(Pool, n, outside)} :
         /\ Commit(IF r.ret # NULL THEN fill_memory(r.pool, r.ret, n) ELSE r.pool)
         /\ perm' = IF r.ret # NULL
                    THEN perm \cup {[ptr |-> r.ret, size |-> n, tail |-> r.tail]}
                    ELSE perm
         /\ last' = Call("permalloc", n, NULL, r.ret, 0, NoLayout)
  /\ UNCHANGED live

\* the pool as est_realloc finds it: the caller has filled the allocation
BeforeRealloc(a) == fill_memory(Pool, a.ptr, a.size)

\* fill_memory(allocs[idx].ptr, allocs[idx].size, pattern); est_realloc(...);
\* when the size the caller believes it holds reaches beyond the pool, the fill
\* is the last thing known of the program
Realloc(a, n) ==
  /\ a \in live
  /\ Count
  /\ IF BeforeRealloc(a).oob_write
     THEN /\ Commit(BeforeRealloc(a))
          /\ live' = live
          /\ last' = Call("fill_memory", a.size, a.ptr, NULL, 0, NoLayout)
     ELSE \E r \in {est_realloc(BeforeRealloc(a), a.ptr, n)} :
            /\ Commit(r.pool)
            /\ live' = IF r.ret # NULL
                       THEN (live \ {a}) \cup {[ptr |-> r.ret, size |-> n]}
                       ELSE live
            /\ last' = Call("realloc", n, a.ptr, r.ret, est_usable_size(Pool, a.ptr), NoLayout)
  /\ UNCHANGED perm

Free(a) ==
  /\ a \in live
  /\ Count
  /\ Commit(est_free(Pool, a.ptr))
  /\ live' = live \ {a}
  /\ last' = Call("free", 0, a.ptr, NULL, est_usable_size(Pool, a.ptr),
                  IF last.op = "malloc" /\ last.ret = a.ptr THEN last.pre ELSE NoLayout)
  /\ UNCHANGED perm

Next ==
  \/ \E n \in ReqSizes : Malloc(n)
  \/ \E c \in CallocArgs : Calloc(c[1], c[2])
  \/ \E n \in ReqSizes : Permalloc(n)
  \/ \E a \in live, n \in ReqSizes : Realloc(a, n)
  \/ \E a \in live : Free(a)

Spec == Init /\ [][Next]_vars

\* the same caller, asking for sizes beyond ESTALLOC_MEMSIZE_T as well
NextWide ==
  \/ \E n \in ReqSizes \cup WideSizes : Malloc(n)
  \/ \E c \in CallocArgs : Calloc(c[1], c[2])
  \/ \E n \in ReqSizes \cup WideSizes : Permalloc(n)
  \/ \E a \in live, n \in ReqSizes \cup WideSizes : Realloc(a, n)
  \/ \E a \in live : Free(a)

SpecWide == Init /\ [][NextWide]_vars

(******************************* properties *******************************)
PoolNext ==
  [size |-> pool_size', mem |-> mem', free_fli_bitmap |-> free_fli_bitmap',
   free_sli_bitmap |-> free_sli_bitmap', free_blocks |-> free_blocks',
   error_message |-> error_message', prof |-> prof', oob_read |-> oob_read',
   oob_write |-> oob_write']

AllocOps == {"malloc", "calloc", "realloc", "permalloc"}

\* a call has just been made (the step is no stuttering step)
Called(op) == calls' # calls /\ last'.op = op

\* the payload the allocator has granted: the block's usable size, and for a
\* region carved from the tail the rounded request
Granted(P, ptr, n, tail) ==
  IF tail THEN permalloc_alloc_size(n) ELSE est_usable_size(P, ptr)

Range(ptr, len) == {x \in ptr .. (ptr + len - 1) : TRUE}

LiveRange(P, a) == Range(a.ptr, Granted(P, a.ptr, a.size, FALSE))
PermRange(P, r) == Range(r.ptr, Granted(P, r.ptr, r.size, r.tail))

\* the payloads of the allocations held, one entry per allocation
Payloads(P, lv, pm) ==
  {<<"live", a.ptr, LiveRange(P, a)>> : a \in lv} \cup {<<"perm", r.ptr, PermRange(P, r)>> : r \in pm}

PayloadsOK(P, lv, pm) ==
  /\ \A x \in Payloads(P, lv, pm) : x[3] \subseteq BPOOL_TOP(P) .. (BPOOL_END(P) - 1)
  /\ \A x, y \in Payloads(P, lv, pm) : x # y => x[3] \cap y[3] = {} /\ x[2] # y[2]

C2_MallocUsable ==
  (last.op = "malloc" /\ last.ret # NULL)
    => /\ est_usable_size(Pool, last.ret) >= last.n
       /\ est_usable_size(Pool, last.ret) % ESTALLOC_ALIGNMENT = 0

\* C3: when malloc, calloc or permalloc returns nil the pool is as it was before
\* the call: the block chain, every free list, both bitmaps, and with them the
\* bytes of the block region.
C3_NilLeavesPool ==
  [][(calls' # calls /\ last'.op \in {"malloc", "calloc", "permalloc"} /\ last'.ret = NULL)
       => /\ Layout(PoolNext) = Layout(Pool)
          /\ mem' = mem
          /\ free_blocks' = free_blocks
          /\ live' = live /\ perm' = perm]_vars

C3_Witness == last.op = "malloc" /\ last.n = 22 /\ last.ret = NULL /\ live # {}

\* C4: when realloc(p, n) with p non-nil returns nil, the block of p is still
\* USED with the same size and contents, and the block chain, the free lists and
\* the bitmaps are unchanged.
C4_ReallocNil ==
  [][(Called("realloc") /\ last'.ret = NULL)
       => \E a \in live :
            /\ a.ptr = last'.ptr
            /\ live' = live
            /\ IS_USED_BLOCK(PoolNext, BLOCK_ADRS(a.ptr))
            /\ est_usable_size(PoolNext, a.ptr) = last'.u
            /\ mem' = BeforeRealloc(a).mem
            /\ free_blocks' = free_blocks
            /\ Layout(PoolNext) = Layout(Pool)]_vars

C4_Witness == last.op = "realloc" /\ last.n = 22 /\ last.ret = NULL /\ Cardinality(live) = 3

Min(x, y) == IF x <= y THEN x ELSE y

\* C5: when p' = realloc(p, n) is non-nil, the first min(u, n) payload bytes at
\* p' are the first min(u, n) payload bytes that were at p before the call,
\* where u = usable_size(p) before the call.
C5_ReallocPreserves ==
  [][(Called("realloc") /\ last'.ret # NULL)
       => \A a \in live :
            a.ptr = last'.ptr
              => \A i \in 0 .. (Min(est_usable_size(Pool, a.ptr), last'.n) - 1) :
                   mem'[last'.ret + i] = BeforeRealloc(a).mem[a.ptr + i]]_vars

\* the block has moved, and every byte of the old payload had to be preserved
C5_Witness ==
  last.op = "realloc" /\ last.ret # NULL /\ last.ret # last.ptr /\ last.u <= last.n

\* C6: when calloc(k, m) returns a non-nil pointer, the first k*m bytes of the
\* returned payload are zero.
C6_CallocZero ==
  (last.op = "calloc" /\ last.ret # NULL)
    => \A i \in 0 .. (last.n - 1) : mem[last.ret + i] = 0

\* calloc has returned memory that an earlier allocation had held
C6_Witness == last.op = "calloc" /\ last.ret # NULL /\ last.n = 22 /\ calls >= 3

\* n plus the header, rounded up to the alignment, at least the minimum block
RoundedRequest(n) ==
  IF n + sizeof_USED_BLOCK + AlignPad(n + sizeof_USED_BLOCK) < ESTALLOC_MIN_MEMORY_BLOCK_SIZE
  THEN ESTALLOC_MIN_MEMORY_BLOCK_SIZE
  ELSE n + sizeof_USED_BLOCK + AlignPad(n + sizeof_USED_BLOCK)

\* the rounded request fits p's block, or the next block is free and the two
\* together hold it
FitsInPlace(P, ptr, n) ==
  \/ RoundedRequest(n) <= BLOCK_SIZE(P, BLOCK_ADRS(ptr))
  \/ /\ IS_FREE_BLOCK(P, PHYS_NEXT(P, BLOCK_ADRS(ptr)))
     /\ BLOCK_SIZE(P, BLOCK_ADRS(ptr)) + BLOCK_SIZE(P, PHYS_NEXT(P, BLOCK_ADRS(ptr)))
          >= RoundedRequest(n)

\* C7: realloc(p, n) with p non-nil returns p whenever the rounded request fits
\* p's block or p's block together with a free next block; in every other case
\* it returns nil or a pointer different from p.
C7_ReallocInPlace ==
  [][Called("realloc") => (last'.ret = last'.ptr <=> FitsInPlace(Pool, last'.ptr, last'.n))]_vars

\* grown in place
C7_Witness == last.op = "realloc" /\ last.ret = last.ptr /\ last.u < last.n

\* the list l with t moved to its head, when t is on it
MoveToHead(l, t) ==
  IF \E k \in 1 .. Len(l) : l[k] = t
  THEN <<t>> \o SelectSeq(l, LAMBDA x : x # t)
  ELSE l

\* free(p) has just followed the successful malloc that returned p
RoundTrip == last.op = "free" /\ last.pre.chain # << >>

\* C8 as the claim states it: after p = malloc(n); free(p) the block chain, the
\* free lists with their members in their order, the bitmaps and the statistics
\* are what they were before the pair.
C8_RoundTripIdentical == RoundTrip => Layout(Pool) = last.pre

\* C8, amended: after p = malloc(n); free(p) the block chain, the bitmaps and the
\* statistics are what they were, and so is every free list except that the
\* block malloc took now stands at the head of its list.
C8_RoundTrip ==
  RoundTrip
    => /\ Layout(Pool).chain = last.pre.chain
       /\ Layout(Pool).free_fli_bitmap = last.pre.free_fli_bitmap
       /\ Layout(Pool).free_sli_bitmap = last.pre.free_sli_bitmap
       /\ Layout(Pool).stat = last.pre.stat
       /\ \A i \in 0 .. SIZE_FREE_BLOCKS :
            Layout(Pool).lists[i] = MoveToHead(last.pre.lists[i], BLOCK_ADRS(last.ptr))

\* the pair has changed the order of a free list
C8_Witness == RoundTrip /\ Layout(Pool).lists # last.pre.lists

\* the bytes of the block at b
BlockBytes(P, b) == Range(b, BLOCK_SIZE(P, b))

\* the free blocks of the chain
FreeOfChain(P) == {Chain(P)[k][1] : k \in {j \in 1 .. Len(Chain(P)) : ~Chain(P)[j][3]}}

\* the blocks the free lists reach
OnLists(P) == UNION {{FreeList(P, i)[k] : k \in 1 .. Len(FreeList(P, i))} : i \in 0 .. SIZE_FREE_BLOCKS}

\* C9: once permalloc has returned a region carved from the tail, no byte of it
\* lies in a free block of the chain, no free list reaches a block that holds
\* a byte of it, and no payload handed out overlaps it.
C9_PermRegionKept ==
  \A r \in perm :
    r.tail
      => /\ \A b \in FreeOfChain(Pool) \cup OnLists(Pool) :
              BlockBytes(Pool, b) \cap PermRange(Pool, r) = {}
         /\ \A a \in live : LiveRange(Pool, a) \cap PermRange(Pool, r) = {}
         /\ \A q \in perm : q # r => PermRange(Pool, q) \cap PermRange(Pool, r) = {}

\* blocks have been allocated and freed after the region was carved
C9_Witness ==
  /\ \E r \in perm : r.tail /\ r.size = 22
  /\ last.op = "free"
  /\ live # {}
  /\ FreeOfChain(Pool) # {}

\* C10: for every request size n, permalloc(n) returns nil or a pointer to at
\* least n bytes that lie inside the pool.
C10_PermallocHolds ==
  (last.op = "permalloc" /\ last.ret # NULL) => InPool(Pool, last.ret, last.n)

\* the last block of the chain: the sentinel, or the block that has absorbed it
LastBlock(P) == Chain(P)[Len(Chain(P))][1]

\* the last non-sentinel block is free and its size minus the used header holds
\* n rounded up to the alignment
TailFits(P, n) ==
  /\ Len(Chain(P)) >= 2
  /\ ~Chain(P)[Len(Chain(P)) - 1][3]
  /\ Chain(P)[Len(Chain(P)) - 1][2] - sizeof_USED_BLOCK >= n + AlignPad(n)

\* the step has moved the start of the last block down and has returned its payload
TookFromTail == LastBlock(PoolNext) < LastBlock(Pool) /\ last'.ret = LastBlock(PoolNext) + sizeof_USED_BLOCK

\* the pool once the caller has filled what est_malloc returned
AfterMalloc(r, n) == IF r.ret # NULL THEN fill_memory(r.pool, r.ret, n) ELSE r.pool

\* the same chain bytes and the same free index
SamePool(P, Q) ==
  /\ P.size = Q.size
  /\ P.mem = Q.mem
  /\ P.free_blocks = Q.free_blocks
  /\ P.free_fli_bitmap = Q.free_fli_bitmap
  /\ P.free_sli_bitmap = Q.free_sli_bitmap

\* C11: permalloc(n) takes its space from the tail exactly when the last
\* non-sentinel block is free and holds n rounded up to the alignment behind a
\* used header; otherwise its result and its effect on the pool are those of
\* malloc(n), and a request larger than the pool returns nil.
C11_PermallocTailOrMalloc ==
  [][Called("permalloc")
       => IF TailFits(Pool, last'.n)
          THEN TookFromTail
          ELSE /\ ~TookFromTail
               /\ last'.ret = est_malloc(Pool, last'.n).ret
               /\ SamePool(PoolNext, AfterMalloc(est_malloc(Pool, last'.n), last'.n))
               /\ (last'.n > pool_size => last'.ret = NULL)]_vars

\* permalloc has fallen back to malloc, which found a block, after an earlier
\* permalloc had taken its space from the tail
C11_Witness ==
  /\ last.op = "permalloc" /\ last.ret # NULL
  /\ \E r \in perm : r.ptr = last.ret /\ ~r.tail
  /\ \E r \in perm : r.tail

(******************** free with a pointer that is not valid *****************)
\* the kinds of invalid pointer a caller may hand to est_free
InvalidKinds == {"free outside", "free freed", "free permalloc", "free interior"}

\* an invalid free has been made: the caller has left its contract
Faulted == last.op \in InvalidKinds

\* pointers that are not valid for est_free in the current state: addresses
\* outside the block region, payloads of free blocks, results of permalloc,
\* addresses inside a live payload
InvalidPtrs ==
  {<<"free outside", p>> : p \in {-2 * sizeof_PTR, pool_size + sizeof_USED_BLOCK,
                                  pool_size + 2 * sizeof_USED_BLOCK}}
    \cup {<<"free freed", b + sizeof_USED_BLOCK>> : b \in FreeOfChain(Pool)}
    \cup {<<"free permalloc", r.ptr>> : r \in perm}
    \cup {<<"free interior", a.ptr + 1>> : a \in live}
    \cup {<<"free interior", a.ptr + sizeof_USED_BLOCK>> : a \in live}

\* est_free(est, p) with p invalid
FreeInvalid(kind, p) ==
  /\ ~Faulted
  /\ Count
  /\ Commit(est_free(Pool, p))
  /\ last' = Call(kind, 0, p, NULL, 0, Layout(Pool))
  /\ UNCHANGED <<live, perm>>

\* the caller of Next, which may end with one invalid free
NextDebug ==
  \/ \E n \in ReqSizes : ~Faulted /\ Malloc(n)
  \/ \E c \in CallocArgs : ~Faulted /\ Calloc(c[1], c[2])
  \/ \E n \in ReqSizes : ~Faulted /\ Permalloc(n)
  \/ \E a \in live, n \in ReqSizes : ~Faulted /\ Realloc(a, n)
  \/ \E a \in live : ~Faulted /\ Free(a)
  \/ \E x \in InvalidPtrs : FreeInvalid(x[1], x[2])

SpecDebug == Init /\ [][NextDebug]_vars

\* C12: in the DEBUG build free(p) with p outside the pool, p the payload of a
\* free block, p a result of permalloc or p inside a payload sets error_message
\* to a string and leaves the block chain, the free lists and the bitmaps as
\* they were.
C12_InvalidFreeRejected ==
  Faulted => error_message # "" /\ Layout(Pool) = last.pre

(****************************** est_sanity_check ***************************)
\* the walk of est_sanity_check; errors is the set of the bits set so far
RECURSIVE sanity_walk(_, _, _, _)
sanity_walk(P, block, prev_block, errors) ==
  IF ~(block < BPOOL_END(P)) THEN errors
  ELSE sanity_walk(P, PHYS_NEXT(P, block), block,
         errors
           \cup (IF BLOCK_SIZE(P, block) % ESTALLOC_ALIGNMENT # 0 THEN {1} ELSE {})
           \cup (IF P.size < BLOCK_SIZE(P, block) THEN {2} ELSE {})
           \cup (IF PHYS_NEXT(P, block) < block \/ BPOOL_END(P) < PHYS_NEXT(P, block)
                 THEN {4} ELSE {})
           \cup (IF prev_block # NULL /\ IS_USED_BLOCK(P, prev_block) /\ ~IS_PREV_USED(P, block)
                 THEN {8} ELSE {})
           \cup (IF prev_block # NULL /\ IS_FREE_BLOCK(P, prev_block) /\ IS_PREV_USED(P, block)
                 THEN {16} ELSE {}))

\* the set of error bits est_sanity_check returns; {} is the return value 0
est_sanity_check(P) ==
  IF P.size = 0 THEN {1} ELSE sanity_walk(P, BPOOL_TOP(P), NULL, {})

\* PREV_USED of every block is USED of the block before it, and set in the first
PrevUsedConsistent(ch) ==
  /\ ch[1][4]
  /\ \A k \in 2 .. Len(ch) : ch[k][4] = ch[k - 1][3]

\* C13: in every state reached by valid calls every block after the first, the
\* sentinel included, has PREV_USED equal to USED of the block before it, the
\* first block has PREV_USED set, and sanity_check returns 0.
C13_PrevUsedConsistent ==
  PrevUsedConsistent(Chain(Pool)) /\ est_sanity_check(Pool) = {}

\* a used block stands behind a free one, the last block stands behind a free
\* one, and permalloc has moved the sentinel
C13_Witness ==
  /\ \E k \in 2 .. (Len(Chain(Pool)) - 1) : Chain(Pool)[k][3] /\ ~Chain(Pool)[k][4]
  /\ ~Chain(Pool)[Len(Chain(Pool))][4]
  /\ \E r \in perm : r.tail
  /\ last.op = "free"

(************************* the builds of the allocator **********************)
\* the values of ESTALLOC_ALIGNMENT the header accepts
Alignments == {4, 8}

InitAlign == \E a \in Alignments : InitBuild(a)

\* the caller of Spec on the 16-bit builds of either alignment
SpecAlign == InitAlign /\ [][Next]_vars

\* C14: every non-nil pointer returned by malloc, calloc, realloc or permalloc
\* is a multiple of the pool alignment, whichever alignment the build has.
\* (Addresses are offsets from the pool base, which est_init asserts aligned.)
C14_Aligned ==
  (last.op \in AllocOps /\ last.ret # NULL) => last.ret % ESTALLOC_ALIGNMENT = 0

(****************************** pools of any size **************************)
\* sizes handed to est_init: all pass its assertions (0 < size <= 65535)
InitSizes == {100, 368, 380, 384, InitSize}

InitAnySize == \E size0 \in InitSizes : InitPool(4, size0)

\* the caller of Spec on a pool of any of these sizes
SpecInit == InitAnySize /\ [][Next]_vars

\* sentinel_size of est_init
SentinelSize == sizeof_USED_BLOCK + AlignPad(sizeof_USED_BLOCK)

\* a pool is as the specification describes it after init: one free block of
\* free_size bytes, the used sentinel behind it, the free block alone in the
\* free index under its class, the invariants of the pool
InitLayout(P, free_size) ==
  /\ ~P.oob_write
  /\ Chain(P) = << <<BPOOL_TOP(P), free_size, FALSE, TRUE>>,
                   <<BPOOL_TOP(P) + free_size, SentinelSize, TRUE, FALSE>> >>
  /\ \A i \in 0 .. SIZE_FREE_BLOCKS :
       FreeList(P, i) = IF i = calc_index(free_size) THEN <<BPOOL_TOP(P)>> ELSE << >>
  /\ P.free_fli_bitmap = Shr(MSB_BIT1_FLI, FLI(calc_index(free_size)))
  /\ \A i \in DOMAIN P.free_sli_bitmap :
       P.free_sli_bitmap[i] = IF i = FLI(calc_index(free_size))
                              THEN Shr(MSB_BIT1_SLI, SLI(calc_index(free_size)))
                              ELSE 0
  /\ free_size >= ESTALLOC_MIN_MEMORY_BLOCK_SIZE
  /\ RdPtr(P, BPOOL_TOP(P) + free_size - sizeof_PTR) = BPOOL_TOP(P)
  /\ est_sanity_check(P) = {}

\* C15: init(buf, size) with 0 < size <= the maximum of the size type yields a
\* pool of size rounded down to the alignment whose chain is one free block of
\* that size minus the pool header minus the sentinel, followed by the used
\* sentinel; the free block is the only entry of the free index and the pool
\* invariants hold.
C15_InitLayout ==
  calls = 0
    => /\ pool_size = last.n - (last.n % ESTALLOC_ALIGNMENT)
       /\ InitLayout(Pool, pool_size - sizeof_MEMORY_POOL - SentinelSize)

(*************************** calls with a nil pointer ***********************)
\* est_free(est, NULL)
FreeNil ==
  /\ Count
  /\ Commit(est_free(Pool, NULL))
  /\ last' = Call("free", 0, NULL, NULL, 0, NoLayout)
  /\ UNCHANGED <<live, perm>>

\* est_realloc(est, NULL, n)
ReallocNil(n) ==
  /\ Room
  /\ Count
  /\ \E r \in {est_realloc(Pool, NULL, n)} :
       /\ Commit(r.pool)
       /\ live' = IF r.ret # NULL THEN live \cup {[ptr |-> r.ret, size |-> n]} ELSE live
       /\ last' = Call("realloc", n, NULL, r.ret, 0, NoLayout)
  /\ UNCHANGED perm

\* the caller of Next, which also frees and reallocates the nil pointer
NextNil ==
  \/ \E n \in ReqSizes : Malloc(n)
  \/ \E c \in CallocArgs : Calloc(c[1], c[2])
  \/ \E n \in ReqSizes : Permalloc(n)
  \/ \E a \in live, n \in ReqSizes : Realloc(a, n)
  \/ \E a \in live : Free(a)
  \/ FreeNil
  \/ \E n \in ReqSizes : ReallocNil(n)

SpecNil == Init /\ [][NextNil]_vars

\* C16: free(nil) leaves the whole pool as it was, and realloc(nil, n) returns
\* what malloc(n) returns and leaves the pool as malloc(n) leaves it.
C16_NilPointer ==
  [][/\ (Called("free") /\ last'.ptr = NULL)
          => /\ SamePool(PoolNext, Pool)
             /\ error_message' = error_message
             /\ UNCHANGED <<live, perm>>
     /\ (Called("realloc") /\ last'.ptr = NULL)
          => /\ last'.ret = est_malloc(Pool, last'.n).ret
             /\ SamePool(PoolNext, est_malloc(Pool, last'.n).pool)
             /\ error_message' = est_malloc(Pool, last'.n).pool.error_message]_vars

\* free(nil) has been called on a pool that holds a live allocation
C16_Witness ==
  /\ last.op = "free" /\ last.ptr = NULL
  /\ live # {}
  /\ calls >= 2

\* C17: in every reachable state the physical-chain walk of permalloc and the
\* first-fit scan of malloc end and read only blocks inside the pool, also after
\* a permalloc that has absorbed the sentinel into the last block: no call has
\* read a block header outside [BPOOL_TOP, BPOOL_END).
C17_WalksInPool == ~oob_read

\* C18 as the claim states it: immediately after init take_statistics reports
\* used == 0 and frag == 0.
C18_InitStatisticsZero ==
  calls = 0 => est_take_statistics(Pool).used = 0 /\ est_take_statistics(Pool).frag = 0

\* C18, amended: immediately after init take_statistics reports used equal to
\* the size of the sentinel, which it counts as a used block, frag == 0, and
\* free equal to the pool size minus the pool header minus the sentinel.
C18_InitStatistics ==
  calls = 0
    => /\ est_take_statistics(Pool).used = SentinelSize
       /\ est_take_statistics(Pool).frag = 0
       /\ est_take_statistics(Pool).free = pool_size - sizeof_MEMORY_POOL - SentinelSize
       /\ est_take_statistics(Pool).total = pool_size

\* the pool just initialised, in the build whose sentinel has 8 bytes
C18_Witness ==
  calls = 0 /\ last.op = "init" /\ SentinelSize = 8 /\ est_take_statistics(Pool).free > 0

\* C19: profiling has been started after init and is not stopped; after every
\* call prof.min <= the used bytes of the pool <= prof.max, and prof.initial is
\* the used bytes at the time profiling started, those of the sentinel.
C19_ProfileTracks ==
  /\ prof.min <= profile_walk(Pool, BPOOL_TOP(Pool), 0)
  /\ profile_walk(Pool, BPOOL_TOP(Pool), 0) <= prof.max
  /\ prof.initial = SentinelSize

(***************************** cost of the tail walk ***********************)
\* the number of times est_permalloc executes the body of its do-while loop,
\* `prev = tail; tail = PHYS_NEXT(tail);`, when the walk is at tail
RECURSIVE permalloc_walk_steps(_, _)
permalloc_walk_steps(P, tail) ==
  IF InPool(P, PHYS_NEXT(P, tail), 2) /\ PHYS_NEXT(P, PHYS_NEXT(P, tail)) < BPOOL_END(P)
  THEN 1 + permalloc_walk_steps(P, PHYS_NEXT(P, tail))
  ELSE 1

\* the cost of the walk of an est_permalloc called on pool P
permalloc_cost(P) == permalloc_walk_steps(P, BPOOL_TOP(P))

\* the number of blocks of the pool, the sentinel included
NumBlocks(P) == Len(Chain(P))

\* C20: the cost of permalloc does not grow with the number of blocks of the
\* pool: a call that leaves more blocks in the pool than it found does not make
\* the walk of the next est_permalloc longer.
C20_PermallocConstantTime ==
  [][NumBlocks(PoolNext) > NumBlocks(Pool) => permalloc_cost(PoolNext) <= permalloc_cost(Pool)]_vars

(************************** invariants of the pool *************************)
\* C21: in every reachable state the block chain tiles the block region: the
\* walk by BLOCK_SIZE from the first block ends exactly at the pool end, the
\* blocks are pairwise disjoint and together cover every byte of the region,
\* whose length is the pool size minus the size of the pool header; so the
\* sizes of the blocks, the last one included, sum to that length.
C21_Tiling ==
  \A ch \in {Chain(Pool)} :
    /\ Len(ch) > 0
    /\ ch[Len(ch)][1] + ch[Len(ch)][2] = BPOOL_END(Pool)
    /\ \A k \in 1 .. Len(ch) : ch[k][2] > 0
    /\ \A j, k \in 1 .. Len(ch) :
         j # k => BlockBytes(Pool, ch[j][1]) \cap BlockBytes(Pool, ch[k][1]) = {}
    /\ UNION {BlockBytes(Pool, ch[k][1]) : k \in 1 .. Len(ch)}
         = BPOOL_TOP(Pool) .. (pool_size - 1)
    /\ BPOOL_END(Pool) - BPOOL_TOP(Pool) = pool_size - sizeof_MEMORY_POOL

\* permalloc has moved the sentinel down, and a later permalloc has absorbed it
\* into the block before it
C21_Witness ==
  /\ last.op = "permalloc"
  /\ \E r, q \in perm :
       /\ r.tail /\ q.tail /\ q.ptr < r.ptr
       /\ BLOCK_ADRS(q.ptr) = LastBlock(Pool)
       /\ r.ptr < LastBlock(Pool) + BLOCK_SIZE(Pool, LastBlock(Pool))

(********************* a pool with several rows of classes ******************)
\* size of a pool whose first free block lies in the third row of the free
\* index (a block region of 400 bytes)
LargeInitSize == 764

\* request sizes whose blocks fall in rows 0, 1 and 2 of the free index
LargeSizes == {10, 130, 260}

NextLarge ==
  \/ \E n \in LargeSizes : Malloc(n)
  \/ \E n \in LargeSizes : Permalloc(n)
  \/ \E a \in live, n \in LargeSizes : Realloc(a, n)
  \/ \E a \in live : Free(a)

\* the caller of Spec on the larger pool, with the larger requests
SpecLarge == InitPool(4, LargeInitSize) /\ [][NextLarge]_vars

\* C22: in every reachable state each free block of the chain is on exactly
\* one free list, the one at calc_index(BLOCK_SIZE(block)), once; and the walk
\* of every free list from its head yields free blocks of the chain only, each
\* of the class of that list: no used block, no stale or duplicated entry.
C22_IndexExact ==
  \A free \in {FreeOfChain(Pool)} :
    /\ \A i \in 0 .. SIZE_FREE_BLOCKS :
         \A l \in {FreeList(Pool, i)} :
           /\ \A k \in 1 .. Len(l) :
                /\ l[k] \in free
                /\ calc_index(BLOCK_SIZE(Pool, l[k])) = i
                /\ \A j \in 1 .. Len(l) : j # k => l[j] # l[k]
           /\ Len(l) <= MaxBlocks(Pool)
    /\ \A b \in free :
         \E k \in 1 .. Len(FreeList(Pool, calc_index(BLOCK_SIZE(Pool, b)))) :
           FreeList(Pool, calc_index(BLOCK_SIZE(Pool, b)))[k] = b

\* free blocks stand on lists of three rows of the index, two of them on the
\* same list
C22_Witness ==
  /\ last.op \in {"free", "realloc"}
  /\ \E i \in 0 .. (SIZE_FREE_BLOCKS - 1) :
       /\ free_blocks[i] # NULL
       /\ Len(FreeList(Pool, i)) >= 2
       /\ \E j \in 0 .. (SIZE_FREE_BLOCKS - 1) : free_blocks[j] # NULL /\ FLI(j) # FLI(i)

\* C23: in every reachable state the bitmaps mirror the free lists: the SLI bit
\* (i, j) is set if and only if the list of class (i, j) is not empty, the FLI
\* bit i is set if and only if some list of row i is not empty, and no other bit
\* is set; hence, whatever class index the search of malloc starts from, the
\* class its SLI probe or its FLI probe selects has a head that is not nil.
C23_BitmapsMirror ==
  /\ \A i \in 0 .. ESTALLOC_FLI_BIT_WIDTH :
       /\ \A j \in 0 .. (Pow2(ESTALLOC_SLI_BIT_WIDTH) - 1) :
            BitSet(free_sli_bitmap[i], MSB_BIT1_SLI, j)
              <=> free_blocks[i * Pow2(ESTALLOC_SLI_BIT_WIDTH) + j] # NULL
       /\ free_sli_bitmap[i] < 2 * MSB_BIT1_SLI
       /\ BitSet(free_fli_bitmap, MSB_BIT1_FLI, i)
            <=> \E j \in 0 .. (Pow2(ESTALLOC_SLI_BIT_WIDTH) - 1) :
                  free_blocks[i * Pow2(ESTALLOC_SLI_BIT_WIDTH) + j] # NULL
  /\ free_sli_bitmap[ESTALLOC_FLI_BIT_WIDTH + 1] = 0
  /\ free_blocks[SIZE_FREE_BLOCKS] = NULL
  /\ free_fli_bitmap < 2 * MSB_BIT1_FLI
  /\ \A i \in (ESTALLOC_FLI_BIT_WIDTH + 1) .. 15 : ~BitSet(free_fli_bitmap, MSB_BIT1_FLI, i)
  /\ \A index \in 1 .. SIZE_FREE_BLOCKS :
       /\ \A masked \in {BitBelow(free_sli_bitmap[FLI(index)], MSB_BIT1_SLI, SLI(index))} :
            masked # 0
              => free_blocks[FLI(index) * Pow2(ESTALLOC_SLI_BIT_WIDTH) + nlz8(masked)] # NULL
       /\ \A masked \in {BitBelow(free_fli_bitmap, MSB_BIT1_FLI, FLI(index))} :
            masked # 0
              => free_blocks[nlz16(masked) * Pow2(ESTALLOC_SLI_BIT_WIDTH)
                               + nlz8(free_sli_bitmap[nlz16(masked)])] # NULL

\* malloc has taken a block while lists of two rows were not empty, and has
\* left a row with two lists that are not empty
C23_Witness ==
  /\ last.op = "malloc" /\ last.ret # NULL
  /\ last.pre.free_fli_bitmap \notin {0, 32768, 16384, 8192}
  /\ \E i \in 0 .. ESTALLOC_FLI_BIT_WIDTH :
       \E j, k \in 0 .. (Pow2(ESTALLOC_SLI_BIT_WIDTH) - 1) :
         /\ j # k
         /\ BitSet(free_sli_bitmap[i], MSB_BIT1_SLI, j)
         /\ BitSet(free_sli_bitmap[i], MSB_BIT1_SLI, k)

\* C24: in every reachable state no two blocks that follow each other in the
\* chain are both free.
C24_NoAdjacentFree ==
  \A ch \in {Chain(Pool)} :
    \A k \in 1 .. (Len(ch) - 1) : ch[k][3] \/ ch[k + 1][3]

\* free has merged the block with a free block before it and a free block
\* behind it
C24_Witness ==
  /\ last.op = "free"
  /\ \E k \in 1 .. Len(Chain(Pool)) :
       /\ ~Chain(Pool)[k][3]
       /\ Chain(Pool)[k][1] < BLOCK_ADRS(last.ptr)
       /\ Chain(Pool)[k][1] + Chain(Pool)[k][2] > last.ptr + last.u
  /\ live # {}

\* C25: in every reachable state the last pointer-sized word of every free block
\* of the chain holds the address of that block; so for every block whose
\* PREV_USED flag is clear the word before the block, which est_free reads,
\* holds the address of the block before it in the chain, and that block is free.
C25_BoundaryTag ==
  \A ch \in {Chain(Pool)} :
    /\ \A k \in 1 .. Len(ch) :
         ~ch[k][3] => RdPtr(Pool, ch[k][1] + ch[k][2] - sizeof_PTR) = ch[k][1]
    /\ \A k \in 1 .. Len(ch) :
         ~ch[k][4]
           => /\ k > 1
              /\ ~ch[k - 1][3]
              /\ free_prev(Pool, ch[k][1]) = ch[k - 1][1]
              /\ free_prev(Pool, ch[k][1]) + BLOCK_SIZE(Pool, free_prev(Pool, ch[k][1])) = ch[k][1]

\* free has merged the block into the free block before it, which now stands
\* before a used block that is still live
C25_Witness ==
  /\ last.op = "free"
  /\ \E k \in 1 .. (Len(Chain(Pool)) - 1) :
       /\ ~Chain(Pool)[k][3]
       /\ Chain(Pool)[k][1] < BLOCK_ADRS(last.ptr)
       /\ BLOCK_ADRS(last.ptr) < Chain(Pool)[k + 1][1]
       /\ \E a \in live : BLOCK_ADRS(a.ptr) = Chain(Pool)[k + 1][1]

\* C26 as the claim states it: in every reachable state every block of the
\* chain has a size that is a positive multiple of the alignment and at least
\* the minimum block size.
C26_BlockSizesAll ==
  \A ch \in {Chain(Pool)} :
    \A k \in 1 .. Len(ch) :
      /\ ch[k][2] > 0
      /\ ch[k][2] % ESTALLOC_ALIGNMENT = 0
      /\ ch[k][2] >= ESTALLOC_MIN_MEMORY_BLOCK_SIZE

\* C26, amended: in every reachable state every block of the chain has a size
\* that is a positive multiple of the alignment, and every block but the last
\* one, the sentinel, has at least the minimum block size; the sentinel has at
\* least the size est_init gave it.
C26_BlockSizes ==
  \A ch \in {Chain(Pool)} :
    /\ Len(ch) > 0
    /\ \A k \in 1 .. Len(ch) : ch[k][2] > 0 /\ ch[k][2] % ESTALLOC_ALIGNMENT = 0
    /\ \A k \in 1 .. (Len(ch) - 1) : ch[k][2] >= ESTALLOC_MIN_MEMORY_BLOCK_SIZE
    /\ ch[Len(ch)][2] >= SentinelSize

\* realloc has shrunk a block in place, splitting a free block off; the
\* sentinel is smaller than the minimum block size
C26_Witness ==
  /\ last.op = "realloc" /\ last.ret = last.ptr /\ last.n < last.u
  /\ IS_FREE_BLOCK(Pool, PHYS_NEXT(Pool, BLOCK_ADRS(last.ret)))
  /\ IS_USED_BLOCK(Pool, LastBlock(Pool))
  /\ BLOCK_SIZE(Pool, LastBlock(Pool)) < ESTALLOC_MIN_MEMORY_BLOCK_SIZE

\* C27: in every reachable state the last block of the chain is USED, stands on
\* no free list and is no block malloc, calloc or realloc has handed out; and no
\* call merges the sentinel into the block before it: the block that stood
\* before the last block never becomes the last block of the chain.
C27_SentinelKept ==
  [][/\ \A P \in {Pool, PoolNext} :
          /\ IS_USED_BLOCK(P, LastBlock(P))
          /\ LastBlock(P) \notin OnLists(P)
     /\ \A a \in live' : BLOCK_ADRS(a.ptr) # LastBlock(PoolNext)
     /\ \A ch \in {Chain(Pool)} :
          Len(ch) >= 2 => LastBlock(PoolNext) # ch[Len(ch) - 1][1]]_vars

\* C28: whenever every block obtained from malloc, calloc or realloc has been
\* freed, in any order, and no permalloc has taken anything from the pool, the
\* pool is in its layout after init: one free block that spans the region up to
\* the sentinel, alone in the free index, the sentinel behind it, and the
\* statistics show frag = 0.
C28_AllFreedIsInit ==
  (calls > 0 /\ live = {} /\ perm = {})
    => /\ InitLayout(Pool, pool_size - sizeof_MEMORY_POOL - SentinelSize)
       /\ est_take_statistics(Pool).frag = 0

\* the last of several blocks has been freed, after at least four calls
C28_Witness ==
  /\ calls >= 4 /\ live = {} /\ perm = {}
  /\ last.op = "free"
  /\ last.ptr # BPOOL_TOP(Pool) + sizeof_USED_BLOCK

\* C29: malloc(n) returns nil only if no free block of the chain has a size of
\* at least the rounded request.
C29_MallocFindsFit ==
  [][(Called("malloc") /\ last'.ret = NULL)
       => \A b \in FreeOfChain(Pool) : BLOCK_SIZE(Pool, b) < RoundedRequest(last'.n)]_vars

\* malloc has returned nil although two blocks were free, each too small
C29_Witness ==
  /\ last.op = "malloc" /\ last.ret = NULL /\ last.n = 22
  /\ Cardinality(FreeOfChain(Pool)) >= 2

(***************************** calc_index alone ****************************)
\* the smallest size of class index: row 0 has classes of 2^IGNORE_LSBS bytes,
\* row fli >= 1 starts at 2^(IGNORE_LSBS + SLI_BIT_WIDTH + fli - 1) and has
\* classes of 2^(IGNORE_LSBS + fli - 1) bytes
ClassMin(index) ==
  IF FLI(index) = 0
  THEN SLI(index) * Pow2(ESTALLOC_IGNORE_LSBS)
  ELSE Pow2(ESTALLOC_IGNORE_LSBS + ESTALLOC_SLI_BIT_WIDTH + FLI(index) - 1)
         + SLI(index) * Pow2(ESTALLOC_IGNORE_LSBS + FLI(index) - 1)

\* the sizes calc_index is applied to: the first size of every class, the size
\* before it and the size behind it, and sizes around and beyond the end of the
\* table, which a build with a 32-bit ESTALLOC_MEMSIZE_T can pass
IndexSizes ==
  {s \in {ClassMin(c) + d : c \in 0 .. SIZE_FREE_BLOCKS, d \in {-1, 0, 1}} : s >= 0}
    \cup {Pow2(ESTALLOC_FLI_BIT_WIDTH + ESTALLOC_SLI_BIT_WIDTH + ESTALLOC_IGNORE_LSBS + e) + d :
            e \in {0, 1, 4}, d \in {0, 1}}

\* index = calc_index(alloc_size)
CalcIndex(alloc_size) ==
  /\ last' = Call("calc_index", alloc_size, NULL, calc_index(alloc_size), 0, NoLayout)
  /\ UNCHANGED <<alignment, pool_size, mem, free_fli_bitmap, free_sli_bitmap, free_blocks,
                 error_message, prof, oob_read, oob_write, live, perm, calls>>

\* calc_index applied to one size after another, in the builds with alignment 4
\* and 8
SpecIndex == InitAlign /\ [][\E s \in IndexSizes : CalcIndex(s)]_vars

\* C30: calc_index returns an index below the number of classes, the last class
\* for a size beyond the table; the size is at least the smallest size of the
\* class returned; and of two sizes the larger one never gets the smaller index.
C30_CalcIndex ==
  [][last'.op = "calc_index"
       => /\ last'.ret \in 0 .. (SIZE_FREE_BLOCKS - 1)
          /\ last'.n >= ClassMin(last'.ret)
          /\ last'.n >= ClassMin(SIZE_FREE_BLOCKS) => last'.ret = SIZE_FREE_BLOCKS - 1
          /\ (last.op = "calc_index" /\ last.n <= last'.n) => last.ret <= last'.ret]_vars

\* a size beyond the table has been routed to the last class
C30_Witness ==
  /\ last.op = "calc_index"
  /\ last.n > ClassMin(SIZE_FREE_BLOCKS)
  /\ last.ret = SIZE_FREE_BLOCKS - 1

\* C31: in every reachable state, for the smallest and the largest rounded
\* request of every class that the pool could hold, a block that the search of
\* malloc takes without a test of its size, the head of the class above the
\* request's class, the head of the class the SLI probe selects and the head of
\* the class the FLI probe selects, has a size of at least the rounded request:
\* the assertions at FOUND_TARGET_BLOCK and in split_block hold.
C31_ProbedBlockFits ==
  \A alloc_size \in {a \in {ClassMin(c) - d : c \in 1 .. SIZE_FREE_BLOCKS,
                                               d \in {0, ESTALLOC_ALIGNMENT}} :
                       /\ a >= ESTALLOC_MIN_MEMORY_BLOCK_SIZE
                       /\ a <= pool_size - sizeof_MEMORY_POOL} :
    \A index \in {calc_index(alloc_size) + 1} :
      /\ free_blocks[index] # NULL => BLOCK_SIZE(Pool, free_blocks[index]) >= alloc_size
      /\ \A masked \in {BitBelow(free_sli_bitmap[FLI(index)], MSB_BIT1_SLI, SLI(index))} :
           masked # 0
             => \A target \in {free_blocks[FLI(index) * Pow2(ESTALLOC_SLI_BIT_WIDTH)
                                             + nlz8(masked)]} :
                  target # NULL /\ BLOCK_SIZE(Pool, target) >= alloc_size
      /\ \A masked \in {BitBelow(free_fli_bitmap, MSB_BIT1_FLI, FLI(index))} :
           masked # 0
             => \A target \in {free_blocks[nlz16(masked) * Pow2(ESTALLOC_SLI_BIT_WIDTH)
                                             + nlz8(free_sli_bitmap[nlz16(masked)])]} :
                  target # NULL /\ BLOCK_SIZE(Pool, target) >= alloc_size

\* malloc has taken a block through the FLI probe while the caller held two
\* allocations: the list of the request's class and the list above it were
\* empty and the SLI probe found nothing
C31_Witness ==
  /\ last.op = "malloc" /\ last.ret # NULL
  /\ Cardinality(live) = 3
  /\ \A index \in {calc_index(RoundedRequest(last.n))} :
       /\ last.pre.lists[index] = << >>
       /\ last.pre.lists[index + 1] = << >>
       /\ BitBelow(last.pre.free_sli_bitmap[FLI(index + 1)], MSB_BIT1_SLI, SLI(index + 1)) = 0
       /\ BitBelow(last.pre.free_fli_bitmap, MSB_BIT1_FLI, FLI(index + 1)) # 0

\* C32: the block behind a pointer that malloc(n) has returned, or that a
\* realloc(p, n) has returned without moving the block, is at least as large as
\* the rounded request and exceeds it by the minimum block size at most.
C32_SurplusBounded ==
  (/\ last.op \in {"malloc", "realloc"}
   /\ last.ret # NULL
   /\ last.op = "realloc" => last.ret = last.ptr)
    => BLOCK_SIZE(Pool, BLOCK_ADRS(last.ret)) - RoundedRequest(last.n)
         \in 0 .. ESTALLOC_MIN_MEMORY_BLOCK_SIZE

\* realloc has shrunk the request of a block in place and has not split the
\* block, because the surplus is too small for a block
C32_Witness ==
  /\ last.op = "realloc" /\ last.ret = last.ptr /\ last.ret # NULL
  /\ last.n < last.u
  /\ BLOCK_SIZE(Pool, BLOCK_ADRS(last.ret)) > RoundedRequest(last.n)

(************************ calloc with a wide product ************************)
\* calloc arguments whose product fits unsigned int, while the block it asks
\* for does not fit ESTALLOC_MEMSIZE_T
WideCallocArgs == {<<2, 32765>>, <<1, 65558>>}

\* the caller of Spec, calling calloc with these arguments as well
SpecCalloc ==
  Init /\ [][Next \/ \E c \in WideCallocArgs : Calloc(c[1], c[2])]_vars

\* C33: when calloc(k, m) returns a pointer, the k*m bytes it clears are no
\* more than the usable size of the block est_malloc(k*m) returned, no byte is
\* written outside the pool, and every byte outside that payload, the free lists
\* and the bitmaps are as est_malloc left them.
C33_CallocFrame ==
  [][(Called("calloc") /\ last'.ret # NULL)
       => \A m \in {est_malloc(Pool, last'.n)} :
            /\ m.ret = last'.ret
            /\ last'.n <= est_usable_size(m.pool, m.ret)
            /\ ~oob_write'
            /\ \A x \in DOMAIN mem' :
                 (x < m.ret \/ x >= m.ret + est_usable_size(m.pool, m.ret))
                   => mem'[x] = m.pool.mem[x]
            /\ free_blocks' = m.pool.free_blocks
            /\ free_fli_bitmap' = m.pool.free_fli_bitmap
            /\ free_sli_bitmap' = m.pool.free_sli_bitmap]_vars

====
